---- MODULE Spec2Model ----
(***************************************************************************)
(* Model of collector/main.go: the Lambda extension that resolves the      *)
(* collector configuration, starts the collector, registers with the       *)
(* extensions API and polls lifecycle events until SHUTDOWN, an error or   *)
(* cancellation by a termination signal.                                   *)
(*                                                                         *)
(* Two goroutines: main (variable pc) and the signal goroutine spawned at  *)
(* main.go:64 (variable gpc).  The operating system, the SSM parameter     *)
(* store, the file system and the extensions API host are the environment; *)
(* their outcomes are nondeterministic.  Signals are considered from the   *)
(* moment signal.Notify has installed the handler.                         *)
(***************************************************************************)
EXTENDS Naturals, Sequences, FiniteSets

\* ---------------------------------------------------------------- bounds
\* Longest parameter value / previous file contents considered.
MaxLen == 2
\* History counters (calls, events, signals) saturate at this value.
MaxCount == 2

\* ------------------------------------------------------------- constants
\* main.go:62  sigs := make(chan os.Signal, 1)
SigChanCap == 1
\* main.go:88  path := "/tmp/" + "ssm_collector.yml"
TmpPath == "/tmp/ssm_collector.yml"
\* main.go:104
DefaultPath == "/opt/collector-config/config.yaml"
\* extension.Shutdown / extension.Invoke, and any other kind the host sends
Shutdown == "SHUTDOWN"
Invoke == "INVOKE"
EventTypes == {Invoke, Shutdown, "OTHER"}
\* main.go:63  signal.Notify(sigs, syscall.SIGTERM, syscall.SIGINT)
Signals == {"SIGTERM", "SIGINT"}

\* Absent environment variable or unassigned path.
Unset == "<unset>"
\* Absent file and absent parameter value: not texts over Chars.
NoFile == <<"<nofile>">>
NoValue == <<"<novalue>">>

Chars == {"a", "b"}
Texts == UNION {[1..n -> Chars] : n \in 0..MaxLen}
\* An override path different from the two built-in paths.
OverridePath == "/var/task/collector.yaml"

Inc(n) == IF n < MaxCount THEN n + 1 ELSE n

VARIABLES
  pc,            \* position of the main goroutine
  exitReason,    \* why the process ended ("none" while it runs)
  env,           \* [ssmName, cfgFile]: the two environment variables read
  prevLen,       \* length of /tmp/ssm_collector.yml when the process started
  file,          \* contents of /tmp/ssm_collector.yml, or NoFile
  fetched,       \* *output.Parameter.Value while getSsmConfig runs and after it
                 \* has succeeded, else NoValue
  ssmErr,        \* which step of getSsmConfig returned an error ("none" if none)
  config,        \* local `config` of main, Unset until resolved
  collector,     \* state of the Collector object
  collectorCfg,  \* the path NewCollector was given
  active,        \* calls of Start/Stop in progress: set of [who, fn]
  startCalls, stopCalls,
  cancelled,     \* ctx.Done() is closed
  cancelCalls,
  notified,      \* signal.Notify has been called
  sigs,          \* the buffered channel sigs
  gpc,           \* position of the signal goroutine
  sigsDelivered, \* signals the OS has delivered to the process since Notify
  registration,  \* "none", "calling", "ok", "failed"
  registerCalls,
  polls,         \* NextEvent calls started
  res,           \* last event returned by NextEvent, "none" before
  shutdownsReceived,
  sigDuringPoll,    \* a signal was delivered while a NextEvent call was pending
  cancelDuringPoll, \* cancel() ran while a NextEvent call was pending
  sigBeforeLoop,    \* a signal was delivered before Register had returned
  cancelBeforeLoop, \* cancel() ran before Register had returned
  pollErr,          \* a NextEvent call has returned an error
  pollsAfterCancel  \* NextEvent calls started with the context already cancelled

vars == <<pc, exitReason, env, prevLen, file, fetched, ssmErr, config, collector,
          collectorCfg, active, startCalls, stopCalls, cancelled, cancelCalls,
          notified, sigs, gpc, sigsDelivered, registration, registerCalls,
          polls, res, shutdownsReceived, sigDuringPoll, cancelDuringPoll,
          sigBeforeLoop, cancelBeforeLoop, pollErr, pollsAfterCancel>>

cfgVars == <<env, prevLen, file, fetched, ssmErr, config>>
colVars == <<collector, collectorCfg, active, startCalls, stopCalls>>
sigVars == <<cancelled, cancelCalls, notified, sigs, gpc, sigsDelivered,
             sigDuringPoll, cancelDuringPoll>>
extVars == <<registration, registerCalls, polls, res, shutdownsReceived>>
histVars == <<sigBeforeLoop, cancelBeforeLoop, pollErr, pollsAfterCancel>>

Terminal == {"returned", "fatal", "panicked"}
\* Positions of main from the installation of the signal handler to the
\* return of Register.
BeforeLoop == {"spawn", "register", "registering"}
Alive == pc \notin Terminal

Init ==
  /\ pc = "loadConfig"
  /\ exitReason = "none"
  /\ env \in [ssmName : {"", "otel-config"}, cfgFile : {Unset, OverridePath}]
  /\ file \in {NoFile} \cup Texts
  /\ prevLen = IF file = NoFile THEN 0 ELSE Len(file)
  /\ fetched = NoValue
  /\ ssmErr = "none"
  /\ config = Unset
  /\ collector = "none"
  /\ collectorCfg = Unset
  /\ active = {}
  /\ startCalls = 0
  /\ stopCalls = 0
  /\ cancelled = FALSE
  /\ cancelCalls = 0
  /\ notified = FALSE
  /\ sigs = <<>>
  /\ gpc = "notStarted"
  /\ sigsDelivered = 0
  /\ registration = "none"
  /\ registerCalls = 0
  /\ polls = 0
  /\ res = "none"
  /\ shutdownsReceived = 0
  /\ sigDuringPoll = FALSE
  /\ cancelDuringPoll = FALSE
  /\ sigBeforeLoop = FALSE
  /\ cancelBeforeLoop = FALSE
  /\ pollErr = FALSE
  /\ pollsAfterCancel = 0

\* ------------------------------------------------- config resolution
\* main.go:43-47  awsConfig.LoadDefaultConfig; an error panics.
LoadDefaultConfig ==
  /\ pc = "loadConfig"
  /\ \E ok \in BOOLEAN :
       /\ pc' = IF ok THEN "getParameter" ELSE "panicked"
       /\ exitReason' = IF ok THEN exitReason ELSE "panic"
  /\ UNCHANGED <<histVars, cfgVars, colVars, sigVars, extVars>>

\* The parameter store rejects an empty Name (os.Getenv of an unset
\* variable), so the fetch can only succeed for a non-empty name.
CanFetch(name) == name # ""

\* main.go:82-87  ssmClient.GetParameter; on error getSsmConfig returns it
\* and main (50-54) falls through to getConfig.
GetParameter ==
  /\ pc = "getParameter"
  /\ \/ /\ ssmErr' = "fetch"
        /\ pc' = "getConfig"
        /\ UNCHANGED fetched
     \/ /\ CanFetch(env.ssmName)
        /\ \E v \in Texts : fetched' = v
        /\ pc' = "create"
        /\ UNCHANGED ssmErr
  /\ UNCHANGED <<histVars, exitReason, env, prevLen, file, config, colVars, sigVars, extVars>>

\* Variant: the file is opened without O_TRUNC.
Create_NoTrunc(old) == IF old = NoFile THEN <<>> ELSE old

\* os.Create truncates an existing file and creates a missing one.
Create(old) == <<>>

\* main.go:88-92  file, err := os.Create(path); an error return ends
\* getSsmConfig and with it the local output.
CreateFile ==
  /\ pc = "create"
  /\ \/ /\ file' = Create(file)
        /\ pc' = "write"
        /\ UNCHANGED <<ssmErr, fetched>>
     \/ /\ ssmErr' = "create"
        /\ pc' = "getConfig"
        /\ fetched' = NoValue
        /\ UNCHANGED file
  /\ UNCHANGED <<histVars, exitReason, env, prevLen, config, colVars, sigVars, extVars>>

\* file.WriteString on a freshly opened file writes at offset 0, over what
\* is there, and keeps whatever lies beyond the written bytes.
WriteAt0(content, s) ==
  s \o SubSeq(content, Len(s) + 1, Len(content))

\* main.go:93-97  a failed write may have written a proper prefix.
WriteString ==
  /\ pc = "write"
  /\ \/ /\ file' = WriteAt0(file, fetched)
        /\ config' = TmpPath
        /\ pc' = "newCollector"
        /\ UNCHANGED <<ssmErr, fetched>>
     \/ /\ \E n \in 0..Len(fetched) :
             /\ n < Len(fetched) \/ n = 0
             /\ file' = WriteAt0(file, SubSeq(fetched, 1, n))
        /\ ssmErr' = "write"
        /\ pc' = "getConfig"
        /\ fetched' = NoValue
        /\ UNCHANGED config
  /\ UNCHANGED <<histVars, exitReason, env, prevLen, colVars, sigVars, extVars>>

\* Variant: the override variable is not consulted.
getConfig_IgnoreEnv(e) == DefaultPath

\* main.go:100-108  getConfig
getConfig(e) ==
  IF e.cfgFile = Unset THEN DefaultPath ELSE e.cfgFile

\* main.go:51-54  config = getConfig()
GetConfig ==
  /\ pc = "getConfig"
  /\ config' = getConfig(env)
  /\ pc' = "newCollector"
  /\ UNCHANGED <<histVars, exitReason, env, prevLen, file, fetched, ssmErr, colVars, sigVars, extVars>>

\* ------------------------------------------------------- collector start
\* Variant: the collector is built from getConfig() whatever getSsmConfig
\* returned.
NewCollector_Stale ==
  /\ pc = "newCollector"
  /\ collector' = "created"
  /\ collectorCfg' = getConfig(env)
  /\ pc' = "start"
  /\ UNCHANGED <<histVars, exitReason, cfgVars, active, startCalls, stopCalls, sigVars, extVars>>

\* main.go:55  collector := NewCollector(factories, config)
NewCollector ==
  /\ pc = "newCollector"
  /\ collector' = "created"
  /\ collectorCfg' = config
  /\ pc' = "start"
  /\ UNCHANGED <<histVars, exitReason, cfgVars, active, startCalls, stopCalls, sigVars, extVars>>

\* main.go:58  collector.Start(ctx) is entered
StartCall ==
  /\ pc = "start"
  /\ collector' = "starting"
  /\ active' = active \cup {[who |-> "main", fn |-> "Start"]}
  /\ startCalls' = Inc(startCalls)
  /\ pc' = "starting"
  /\ UNCHANGED <<histVars, exitReason, cfgVars, collectorCfg, stopCalls, sigVars, extVars>>

\* Variant: the error of Start is only logged.
AfterStart_Continue(err) == "notify"

\* main.go:58-60  if err != nil { log.Fatalf(...) }
AfterStart(err) == IF err THEN "fatal" ELSE "notify"

StartReturn ==
  /\ pc = "starting"
  /\ \E err \in BOOLEAN :
       /\ collector' = IF err THEN "startFailed" ELSE "running"
       /\ pc' = AfterStart(err)
       /\ exitReason' = IF pc' = "fatal" THEN "startfail" ELSE exitReason
  /\ active' = active \ {[who |-> "main", fn |-> "Start"]}
  /\ UNCHANGED <<histVars, cfgVars, collectorCfg, startCalls, stopCalls, sigVars, extVars>>

\* ------------------------------------------------------- signal bridge
\* main.go:62-63  sigs := make(chan os.Signal, 1); signal.Notify(sigs, ...)
Notify ==
  /\ pc = "notify"
  /\ notified' = TRUE
  /\ pc' = "spawn"
  /\ UNCHANGED <<histVars, exitReason, cfgVars, colVars, cancelled, cancelCalls, sigs, gpc,
                 sigsDelivered, sigDuringPoll, cancelDuringPoll, extVars>>

\* main.go:64  go func() { ... }()
Spawn ==
  /\ pc = "spawn"
  /\ gpc' = "recv"
  /\ pc' = "register"
  /\ UNCHANGED <<histVars, exitReason, cfgVars, colVars, cancelled, cancelCalls, notified, sigs,
                 sigsDelivered, sigDuringPoll, cancelDuringPoll, extVars>>

\* The OS delivers SIGTERM or SIGINT to the live process.  os/signal sends
\* on the channel without blocking: a signal that finds the buffer full is
\* dropped.
Signal ==
  /\ Alive
  /\ notified
  /\ \E s \in Signals :
       sigs' = IF Len(sigs) < SigChanCap THEN Append(sigs, s) ELSE sigs
  /\ sigsDelivered' = Inc(sigsDelivered)
  /\ sigDuringPoll' = (sigDuringPoll \/ pc = "poll")
  /\ sigBeforeLoop' = (sigBeforeLoop \/ pc \in BeforeLoop)
  /\ UNCHANGED <<cancelBeforeLoop, pollErr, pollsAfterCancel, pc, exitReason, cfgVars, colVars, cancelled, cancelCalls, notified,
                 gpc, cancelDuringPoll, extVars>>

\* main.go:65  s := <-sigs
GRecv ==
  /\ Alive
  /\ gpc = "recv"
  /\ sigs # <<>>
  /\ sigs' = Tail(sigs)
  /\ gpc' = "cancel"
  /\ UNCHANGED <<histVars, pc, exitReason, cfgVars, colVars, cancelled, cancelCalls, notified,
                 sigsDelivered, sigDuringPoll, cancelDuringPoll, extVars>>

\* Variant: the signal goroutine also stops the collector.
GCancel_Stops ==
  /\ Alive
  /\ gpc = "cancel"
  /\ cancelled' = TRUE
  /\ cancelCalls' = Inc(cancelCalls)
  /\ cancelDuringPoll' = (cancelDuringPoll \/ pc = "poll")
  /\ cancelBeforeLoop' = (cancelBeforeLoop \/ pc \in BeforeLoop)
  /\ gpc' = "done"
  /\ collector' = "stopping"
  /\ active' = active \cup {[who |-> "signal", fn |-> "Stop"]}
  /\ stopCalls' = Inc(stopCalls)
  /\ UNCHANGED <<sigBeforeLoop, pollErr, pollsAfterCancel, pc, exitReason, cfgVars, collectorCfg, startCalls, notified, sigs,
                 sigsDelivered, sigDuringPoll, extVars>>

\* Variant: the signal goroutine ranges over the channel and cancels on
\* every signal.
GCancel_Loop ==
  /\ Alive
  /\ gpc = "cancel"
  /\ cancelled' = TRUE
  /\ cancelCalls' = Inc(cancelCalls)
  /\ cancelDuringPoll' = (cancelDuringPoll \/ pc = "poll")
  /\ cancelBeforeLoop' = (cancelBeforeLoop \/ pc \in BeforeLoop)
  /\ gpc' = "recv"
  /\ UNCHANGED <<sigBeforeLoop, pollErr, pollsAfterCancel, pc, exitReason, cfgVars, colVars, notified, sigs, sigsDelivered,
                 sigDuringPoll, extVars>>

\* main.go:66-69  cancel(); two log lines; the goroutine ends
GCancel ==
  /\ Alive
  /\ gpc = "cancel"
  /\ cancelled' = TRUE
  /\ cancelCalls' = Inc(cancelCalls)
  /\ cancelDuringPoll' = (cancelDuringPoll \/ pc = "poll")
  /\ cancelBeforeLoop' = (cancelBeforeLoop \/ pc \in BeforeLoop)
  /\ gpc' = "done"
  /\ UNCHANGED <<sigBeforeLoop, pollErr, pollsAfterCancel, pc, exitReason, cfgVars, colVars, notified, sigs, sigsDelivered,
                 sigDuringPoll, extVars>>

\* ---------------------------------------------------------- registration
\* main.go:71  extensionClient.Register(ctx, extensionName) is entered
RegisterCall ==
  /\ pc = "register"
  /\ registration' = "calling"
  /\ registerCalls' = Inc(registerCalls)
  /\ pc' = "registering"
  /\ UNCHANGED <<histVars, exitReason, cfgVars, colVars, sigVars, polls, res, shutdownsReceived>>

\* Variant: the error of Register is only logged.
AfterRegister_Continue(err) == "check"

\* main.go:72-74  if err != nil { log.Fatalf(...) }
AfterRegister(err) == IF err THEN "fatal" ELSE "check"

\* main.go:71-78  Register returns; on success main enters processEvents
RegisterReturn ==
  /\ pc = "registering"
  /\ \E err \in BOOLEAN :
       /\ registration' = IF err THEN "failed" ELSE "ok"
       /\ pc' = AfterRegister(err)
       /\ exitReason' = IF pc' = "fatal" THEN "registerfail" ELSE exitReason
  /\ UNCHANGED <<histVars, cfgVars, colVars, sigVars, registerCalls, polls, res, shutdownsReceived>>

\* ------------------------------------------------------------ event loop
\* Variant: the two cases of the select are swapped.
AfterCheck_Inverted(done) == IF done THEN "callNext" ELSE "returned"

\* Variant: the loop has no ctx.Done() case.
AfterCheck_Blind(done) == "callNext"

\* main.go:112-116  select { case <-ctx.Done(): return; default: ... }
AfterCheck(done) == IF done THEN "returned" ELSE "callNext"

LoopCheck ==
  /\ pc = "check"
  /\ pc' = AfterCheck(cancelled)
  /\ exitReason' = IF pc' = "returned" THEN "cancel" ELSE exitReason
  /\ UNCHANGED <<histVars, cfgVars, colVars, sigVars, extVars>>

\* main.go:116-117  extensionClient.NextEvent(ctx) is entered and blocks
CallNextEvent ==
  /\ pc = "callNext"
  /\ polls' = Inc(polls)
  /\ pollsAfterCancel' = IF cancelled THEN Inc(pollsAfterCancel) ELSE pollsAfterCancel
  /\ pc' = "poll"
  /\ UNCHANGED <<sigBeforeLoop, cancelBeforeLoop, pollErr, exitReason, cfgVars, colVars, sigVars, registration, registerCalls,
                 res, shutdownsReceived>>

\* Variant: an error of NextEvent is logged and the poll retried.
AfterNextEvent_Retry(err) == IF err THEN "check" ELSE "dispatch"

\* main.go:118-122  if err != nil { ...; return }
AfterNextEvent(err) == IF err THEN "returned" ELSE "dispatch"

\* main.go:117-124  NextEvent returns an error (connection failure or the
\* context cancelled mid-call) or the next event of the host.
NextEventReturn ==
  /\ pc = "poll"
  /\ \/ /\ pc' = AfterNextEvent(TRUE)
        /\ exitReason' = IF pc' = "returned" THEN "pollerr" ELSE exitReason
        /\ pollErr' = TRUE
        /\ UNCHANGED <<res, shutdownsReceived>>
     \/ \E e \in EventTypes :
          /\ res' = e
          /\ shutdownsReceived' =
               IF e = Shutdown THEN Inc(shutdownsReceived) ELSE shutdownsReceived
          /\ pc' = AfterNextEvent(FALSE)
          /\ exitReason' = IF pc' = "returned" THEN "pollerr" ELSE exitReason
          /\ UNCHANGED pollErr
  /\ UNCHANGED <<sigBeforeLoop, cancelBeforeLoop, pollsAfterCancel, cfgVars, colVars, sigVars, registration, registerCalls, polls>>

\* Variant: after an event the loop polls again without the ctx.Done() check.
AfterEvent_SkipCheck(eventType) == IF eventType = Shutdown THEN "stop" ELSE "callNext"

\* Variant: the SHUTDOWN kind is never recognised.
AfterEvent_IgnoreShutdown(eventType) == "check"

\* Variant: every event that is not INVOKE is taken for a shutdown.
AfterEvent_OnlyInvoke(eventType) == IF eventType = Invoke THEN "check" ELSE "stop"

\* main.go:126  if res.EventType == extension.Shutdown
AfterEvent(eventType) == IF eventType = Shutdown THEN "stop" ELSE "check"

\* main.go:124-126, 132-133  dispatch on the event kind
Dispatch ==
  /\ pc = "dispatch"
  /\ pc' = AfterEvent(res)
  /\ UNCHANGED <<histVars, exitReason, cfgVars, colVars, sigVars, extVars>>

\* main.go:127  collector.Stop() is entered
StopCall ==
  /\ pc = "stop"
  /\ collector' = "stopping"
  /\ active' = active \cup {[who |-> "main", fn |-> "Stop"]}
  /\ stopCalls' = Inc(stopCalls)
  /\ pc' = "stopping"
  /\ UNCHANGED <<histVars, exitReason, cfgVars, collectorCfg, startCalls, sigVars, extVars>>

\* Variant: Stop is called again when it has returned an error.
AfterStop_RetryOnErr(err) == IF err THEN "stop" ELSE "returned"

\* Variant: the return after Stop is missing.
AfterStop_Loop(err) == "check"

\* main.go:128-130  after Stop, whatever it returned: two log lines, return
AfterStop(err) == "returned"

\* main.go:127-130  Stop returns; its return value is dropped
StopReturn ==
  /\ pc = "stopping"
  /\ \E err \in BOOLEAN :
       /\ collector' = IF err THEN "stopFailed" ELSE "stopped"
       /\ pc' = AfterStop(err)
       /\ exitReason' = IF pc' = "returned" THEN "shutdown" ELSE exitReason
  /\ active' = active \ {[who |-> "main", fn |-> "Stop"]}
  /\ UNCHANGED <<histVars, cfgVars, collectorCfg, startCalls, stopCalls, sigVars, extVars>>

Next ==
  \/ LoadDefaultConfig
  \/ GetParameter
  \/ CreateFile
  \/ WriteString
  \/ GetConfig
  \/ NewCollector
  \/ StartCall
  \/ StartReturn
  \/ Notify
  \/ Spawn
  \/ Signal
  \/ GRecv
  \/ GCancel
  \/ RegisterCall
  \/ RegisterReturn
  \/ LoopCheck
  \/ CallNextEvent
  \/ NextEventReturn
  \/ Dispatch
  \/ StopCall
  \/ StopReturn

Spec == Init /\ [][Next]_vars

\* ---------------------------------------------------------------- fairness
\* Steps main takes on its own once it can: the Go scheduler runs a
\* runnable goroutine, and Start, Register and Stop return.
MainStep ==
  \/ LoadDefaultConfig \/ GetParameter \/ CreateFile \/ WriteString \/ GetConfig
  \/ NewCollector \/ StartCall \/ StartReturn \/ Notify \/ Spawn
  \/ RegisterCall \/ RegisterReturn
  \/ LoopCheck \/ CallNextEvent \/ Dispatch \/ StopCall \/ StopReturn

\* NextEvent(ctx) is cancellation-aware: with ctx cancelled a pending call
\* returns.  Without cancellation the host may hold the poll open for ever.
NextEventUnblocked == cancelled /\ NextEventReturn

\* The liveness properties concern the goroutines, not the configuration:
\* they are checked from one environment, with every outcome of the
\* configuration steps still open.
FairInit ==
  /\ Init
  /\ env = [ssmName |-> "otel-config", cfgFile |-> OverridePath]
  /\ file = NoFile

FairSpec ==
  /\ FairInit
  /\ [][Next]_vars
  /\ WF_vars(MainStep)
  /\ WF_vars(GRecv)
  /\ WF_vars(GCancel)
  /\ WF_vars(NextEventUnblocked)

\* The host answers every NextEvent call in the end, with an event or an
\* error; which one is left open.
PollFairSpec ==
  /\ FairInit
  /\ [][Next]_vars
  /\ WF_vars(MainStep)
  /\ WF_vars(GRecv)
  /\ WF_vars(GCancel)
  /\ WF_vars(NextEventReturn)

\* ------------------------------------------------------------ properties
StartSucceeded == collector \in {"running", "stopping", "stopped", "stopFailed"}
StartsPoll == pc # "poll" /\ pc' = "poll"

\* C1: in every run in which Start succeeded, Stop has been called by the
\* time the process has exited, whichever way the run ends.
C1_StopBeforeExit ==
  (pc \in Terminal /\ StartSucceeded) => stopCalls >= 1

\* C2: if Start fails the process aborts; Register is never called and no
\* NextEvent poll is ever made.
C2_StartFailureAborts ==
  collector = "startFailed" =>
    /\ pc = "fatal"
    /\ exitReason = "startfail"
    /\ registerCalls = 0
    /\ registration = "none"
    /\ polls = 0

C2_Witness == collector = "startFailed" /\ pc = "fatal" /\ startCalls = 1

\* C3: once NextEvent has returned a SHUTDOWN event, Stop is called exactly
\* once and the loop exits; no further NextEvent call is started, so a
\* second SHUTDOWN is never received and never causes a second Stop.
C3_ShutdownOnce ==
  shutdownsReceived >= 1 =>
    /\ shutdownsReceived = 1
    /\ res = Shutdown
    /\ pc \in {"dispatch", "stop", "stopping", "returned"}
    /\ stopCalls <= 1
    /\ pc \in {"dispatch", "stop"} => stopCalls = 0
    /\ pc \in {"stopping", "returned"} => stopCalls = 1
    /\ pc = "returned" => exitReason = "shutdown"

C3_Witness ==
  shutdownsReceived = 1 /\ pc = "returned" /\ stopCalls = 1 /\ polls = 2

\* C4 as stated: after a termination signal has been delivered while a
\* NextEvent poll was pending, the event loop starts no other poll.
C4_NoPollAfterSignal ==
  [][sigDuringPoll => ~StartsPoll]_vars

\* C4 amended: a signal delivered during a pending poll leads to the context
\* being cancelled (unless the loop is over first) and to the loop exiting;
\* from the moment cancel() has run during a pending poll, that poll is
\* unblocked and no other poll is started.
C4_CancelDuringPollExits ==
  /\ [][cancelDuringPoll => ~StartsPoll]_vars
  /\ sigDuringPoll ~> (cancelled \/ pc \in Terminal)
  /\ cancelDuringPoll ~> (pc \in Terminal)
  /\ sigDuringPoll ~> (pc \in Terminal)

C4_Witness ==
  sigDuringPoll /\ cancelDuringPoll /\ pc = "returned" /\ exitReason = "pollerr"

\* C5: if Register fails the process aborts before the event loop starts:
\* processEvents is not entered and NextEvent is never called.
C5_RegisterFailureAborts ==
  registration = "failed" =>
    /\ pc = "fatal"
    /\ exitReason = "registerfail"
    /\ polls = 0
    /\ res = "none"

C5_Witness == registration = "failed" /\ pc = "fatal" /\ collector = "running"

\* C6: Start and Stop are each called at most once, Stop only after a
\* successful Start, Start never after Stop, both by main only and never at
\* the same time; the collector never runs again once it is stopping.
C6_StartStopDiscipline ==
  /\ [](startCalls <= 1 /\ stopCalls <= 1)
  /\ [](\A c \in active : c.who = "main")
  /\ [](Cardinality(active) <= 1)
  /\ [](stopCalls >= 1 => collector \in {"stopping", "stopped", "stopFailed"})
  /\ [][stopCalls' # stopCalls => collector = "running"]_vars
  /\ [][startCalls' # startCalls => (stopCalls = 0 /\ collector = "created")]_vars
  /\ [][(collector \in {"stopping", "stopped", "stopFailed"}) => (collector' # "running")]_vars

C6_Witness ==
  startCalls = 1 /\ stopCalls = 1 /\ collector = "stopped" /\ gpc = "done"

C8_FetchRoundTrip ==
  (ssmErr = "none" /\ config # Unset) =>
    /\ config = "/tmp/ssm_collector.yml"
    /\ fetched # NoValue
    /\ file = fetched

C8_Witness ==
  /\ ssmErr = "none" /\ config = "/tmp/ssm_collector.yml"
  /\ fetched = <<"b">> /\ file = <<"b">> /\ prevLen = 2

\* C9: the first signal received triggers cancel() exactly once; later
\* signals change nothing of it, and a cancelled context stays cancelled.
C9_CancelOnce ==
  /\ [](cancelCalls <= 1)
  /\ [](cancelled <=> cancelCalls = 1)
  /\ [](gpc = "done" <=> cancelled)
  /\ [](cancelled => sigsDelivered >= 1)
  /\ [][cancelled => cancelled']_vars
  /\ [][gpc = "done" => (gpc' = "done" /\ cancelCalls' = cancelCalls)]_vars

C9_Witness ==
  sigsDelivered = 2 /\ cancelCalls = 1 /\ cancelled /\ gpc = "done" /\ Len(sigs) = 1

\* C10: an event whose kind is not SHUTDOWN causes no Stop and no exit; the
\* loop returns to the cancellation check and, if not cancelled, polls again.
C10_NonShutdownContinues ==
  /\ [][(pc = "dispatch" /\ res # Shutdown) =>
          /\ pc' \in {"dispatch", "check"}
          /\ stopCalls' = stopCalls
          /\ collector' = collector
          /\ exitReason' = exitReason]_vars
  /\ [][(pc = "check" /\ ~cancelled /\ pc' # pc) => pc' = "callNext"]_vars
  /\ [][(pc = "callNext" /\ pc' # pc) => pc' = "poll"]_vars

C10_Witness ==
  polls = 2 /\ pc = "poll" /\ res = "OTHER" /\ stopCalls = 0 /\ exitReason = "none"

\* C11: when NextEvent returns an error, whether from the connection or
\* from the cancellation of a pending poll, the loop exits at once: no
\* retry, no other NextEvent call, and the process ends by normal return.
C11_PollErrorExits ==
  /\ [](pollErr =>
          /\ pc = "returned"
          /\ exitReason = "pollerr"
          /\ registration = "ok")
  /\ [][pollErr => ~StartsPoll]_vars
  /\ [][(pollErr' /\ ~pollErr) => (pc = "poll" /\ pc' = "returned" /\ polls' = polls)]_vars

C11_Witness ==
  pollErr /\ pc = "returned" /\ cancelled /\ pollsAfterCancel = 0 /\ polls = 2

\* C12: every iteration starts with a check of the cancellation signal that
\* does not block; a check that finds it set ends the loop without a
\* NextEvent call, so a cancellation from before the loop gives zero polls.
C12_CheckFirst ==
  /\ [](pc = "check" => ENABLED LoopCheck)
  /\ [][(pc = "check" /\ cancelled /\ pc' # pc) =>
          (pc' = "returned" /\ exitReason' = "cancel" /\ polls' = polls)]_vars
  /\ [][StartsPoll => pc = "callNext"]_vars
  /\ [][(pc' = "callNext" /\ pc # "callNext") => (pc = "check" /\ ~cancelled)]_vars
  /\ [](cancelBeforeLoop => (polls = 0 /\ res = "none"))

C12_Witness ==
  /\ cancelBeforeLoop /\ registration = "ok"
  /\ pc = "returned" /\ exitReason = "cancel" /\ polls = 0

\* C13: when Stop, called for a SHUTDOWN event, returns an error, the loop
\* exits and the process ends all the same: Stop is not called again and no
\* other poll is made.
C13_StopErrorStillExits ==
  collector = "stopFailed" =>
    /\ pc = "returned"
    /\ exitReason = "shutdown"
    /\ stopCalls = 1
    /\ shutdownsReceived = 1
    /\ active = {}

C13_Witness ==
  collector = "stopFailed" /\ pc = "returned" /\ stopCalls = 1 /\ res = Shutdown

\* C14: config resolution, Start, Register and the first NextEvent happen in
\* this order: no NextEvent call before a successful Register, no Register
\* before a successful Start, and Start runs on the resolved path.
C14_StartupOrder ==
  /\ [](polls >= 1 => registration = "ok")
  /\ [](registerCalls >= 1 => StartSucceeded)
  /\ [](startCalls >= 1 => (config # Unset /\ collectorCfg = config))
  /\ [][startCalls' # startCalls =>
          (config # Unset /\ collectorCfg = config /\ registerCalls = 0 /\ polls = 0)]_vars
  /\ [][registerCalls' # registerCalls => (collector = "running" /\ polls = 0)]_vars
  /\ [][StartsPoll => registration = "ok"]_vars

C14_Witness ==
  /\ polls = 1 /\ pc = "poll" /\ registration = "ok" /\ collector = "running"
  /\ collectorCfg = "/tmp/ssm_collector.yml"

\* C15: once cancel() has run, the loop starts at most one other NextEvent
\* call, the one whose cancellation check came before cancel(), and after
\* that call no poll is started.
C15_AtMostOnePollAfterCancel ==
  /\ [](pollsAfterCancel <= 1)
  /\ [][(cancelled /\ StartsPoll) => (pc = "callNext" /\ pollsAfterCancel = 0)]_vars
  /\ [][pollsAfterCancel >= 1 => ~StartsPoll]_vars
  /\ [](pollsAfterCancel = 1 =>
          pc \in {"poll", "dispatch", "check", "stop", "stopping", "returned"})

C15_Witness ==
  pollsAfterCancel = 1 /\ pc = "returned" /\ exitReason = "cancel" /\ res = Invoke

\* C16: the event loop exits for exactly three reasons: cancellation seen at
\* the top of an iteration, an error of NextEvent, or a SHUTDOWN event; and
\* when every NextEvent call returns, the loop exits once the host has
\* delivered SHUTDOWN or an error or a signal has arrived.
C16_ExitReasons ==
  /\ [](pc = "returned" =>
          \/ exitReason = "cancel" /\ cancelled
          \/ exitReason = "pollerr" /\ pollErr
          \/ exitReason = "shutdown" /\ res = Shutdown /\ stopCalls = 1)
  /\ [][(pc' = "returned" /\ pc # "returned") =>
          \/ pc = "check" /\ cancelled
          \/ pc = "poll" /\ pollErr'
          \/ pc = "stopping" /\ res = Shutdown]_vars
  /\ (registration = "ok" /\ (shutdownsReceived >= 1 \/ pollErr \/ sigsDelivered >= 1))
       ~> (pc = "returned")

C16_Witness ==
  /\ registration = "ok" /\ sigsDelivered = 1 /\ shutdownsReceived = 0 /\ ~pollErr
  /\ pc = "returned" /\ exitReason = "cancel" /\ polls = 1

\* C17 as stated: after a signal that arrived between the installation of
\* the handler and the return of Register, the run ends by a failed Register
\* or at the loop's first cancellation check, and no event is consumed.
C17_SignalBeforeLoopNoEvent ==
  sigBeforeLoop =>
    /\ polls = 0
    /\ res = "none"
    /\ pc \in Terminal => exitReason \in {"registerfail", "cancel"}

\* C17 amended: when cancel() itself has run before Register returns, the
\* run ends by a failed Register or at the loop's first cancellation check,
\* and no NextEvent call is made and no event consumed.
C17_CancelBeforeLoopNoEvent ==
  cancelBeforeLoop =>
    /\ sigBeforeLoop
    /\ cancelled
    /\ polls = 0
    /\ res = "none"
    /\ pc \in {"register", "registering", "check", "returned", "fatal"}
    /\ pc \in Terminal => exitReason \in {"registerfail", "cancel"}
    /\ exitReason = "cancel" => registration = "ok"

C17_Witness ==
  cancelBeforeLoop /\ registration = "failed" /\ pc = "fatal" /\ polls = 0
====
